---- MODULE Spec2Model ----
(***************************************************************************)
(* Model of arxiv_dl.main (src/arxiv_dl/arxiv_dl.py): the orchestrator     *)
(* that resolves the download directory, validates and classifies the      *)
(* target string, and runs resolver -> scraper -> downloader -> paper list *)
(* -> paper note.  One action per block of main(); strings are sequences   *)
(* of characters so that startswith / in / endswith are computed.          *)
(* The interpreter is taken to run with assert statements enabled.         *)
(***************************************************************************)
EXTENDS Integers, Sequences, FiniteSets, TLC

VARIABLES target, verbose, download_dir, n_threads, pdf_only,
          fs, pc, dest, paper_data, calls, log, artifacts, result, exc

vars == <<target, verbose, download_dir, n_threads, pdf_only,
          fs, pc, dest, paper_data, calls, log, artifacts, result, exc>>

inputs == <<target, verbose, download_dir, n_threads, pdf_only>>

(***************************************************************************)
(* String literals of the source, as character sequences.                  *)
(***************************************************************************)
HTTP == <<"h", "t", "t", "p", ":", "/", "/">>
HTTPS == <<"h", "t", "t", "p", "s", ":", "/", "/">>
WWW == <<"w", "w", "w", ".">>
ARXIV_ORG == <<"a", "r", "x", "i", "v", ".", "o", "r", "g">>
CVF_HOST == <<"o", "p", "e", "n", "a", "c", "c", "e", "s", "s", ".", "t", "h", "e", "c", "v", "f", ".", "c", "o", "m">>
NIPS_PATH == <<"p", "a", "p", "e", "r", "s", ".", "n", "i", "p", "s", ".", "c", "c", "/", "p", "a", "p", "e", "r">>
OPENREVIEW_HOST == <<"o", "p", "e", "n", "r", "e", "v", "i", "e", "w", ".", "n", "e", "t">>
ECVA_HOST == <<"e", "c", "v", "a", ".", "n", "e", "t">>
DOT_PDF == <<".", "p", "d", "f">>

Digits == {"0", "1", "2", "3", "4", "5", "6", "7", "8", "9"}

(***************************************************************************)
(* str.startswith, str.endswith, the `in` operator and str.isdigit.        *)
(***************************************************************************)
StartsWith(s, p) == Len(s) >= Len(p) /\ SubSeq(s, 1, Len(p)) = p

EndsWith(s, p) == Len(s) >= Len(p) /\ SubSeq(s, Len(s) - Len(p) + 1, Len(s)) = p

Contains(s, p) ==
    \/ Len(p) = 0
    \/ \E i \in 1..(Len(s) - Len(p) + 1) :
          s[i] = p[1] /\ SubSeq(s, i, i + Len(p) - 1) = p

IsDigit(c) == c \in Digits

(***************************************************************************)
(* Inputs of main().  A target is a Python value: a str (v holds its       *)
(* characters), None, or an int.                                           *)
(***************************************************************************)
MaxParts == 2

DefaultThreads == 5

Str(s) == [type |-> "str", v |-> s]

PyNone == [type |-> "NoneType", v |-> <<>>]

PyInt == [type |-> "int", v |-> <<"7">>]

Prefixes == {<<>>, HTTP, HTTPS, WWW, <<"1">>}

Parts == {ARXIV_ORG, CVF_HOST, NIPS_PATH, OPENREVIEW_HOST, ECVA_HOST, <<"x", "/">>}

Suffixes == {<<>>, DOT_PDF}

RECURSIVE Bodies(_)
Bodies(n) ==
    IF n = 0 THEN {<<>>}
    ELSE Bodies(n - 1) \cup {b \o p : b \in Bodies(n - 1), p \in Parts}

StrTargets == {Str(p \o b \o s) : p \in Prefixes, b \in Bodies(MaxParts), s \in Suffixes}

Targets == StrTargets \cup {PyNone, PyInt}

ThreadHints == {1, DefaultThreads}

NoDir == "None"

ConfigDir == "/config/papers"

DownloadDirs == {NoDir, "/papers", "/missing", "/a_file"}

InitFs == [p \in {ConfigDir, "/papers", "/missing", "/a_file"} |->
             CASE p = "/missing" -> "absent"
               [] p = "/a_file" -> "file"
               [] OTHER -> "dir"]

\* variant: Path.exists() in place of Path.is_dir()
IsDir_Exists(f, p) == f[p] # "absent"

\* Path.is_dir()
IsDir(f, p) == f[p] = "dir"

(***************************************************************************)
(* Log records and collaborator calls.                                     *)
(***************************************************************************)
LogException(e) == [level |-> "error", text |-> "exception", cause |-> e]

LogError(m) == [level |-> "error", text |-> m, cause |-> "None"]

LogWarning(m) == [level |-> "warning", text |-> m, cause |-> "None"]

LogDebug(m) == [level |-> "debug", text |-> m, cause |-> "None"]

\* the local paper_data before any branch has assigned it
Unbound == [bound |-> FALSE]

\* one invocation of a collaborator: its name, whether it returned (ok) or
\* raised, and the arguments main() passed (0 / "None" / Unbound when absent)
Call(name, ok, paper, dir, par) ==
    [name |-> name, ok |-> ok, paper |-> paper, dir |-> dir, parallel |-> par]

Init ==
    /\ target \in Targets
    /\ verbose \in BOOLEAN
    /\ download_dir \in DownloadDirs
    /\ n_threads \in ThreadHints
    /\ pdf_only \in BOOLEAN
    /\ fs = InitFs
    /\ pc = "dest"
    /\ dest = NoDir
    /\ paper_data = Unbound
    /\ calls = <<>>
    /\ log = <<>>
    /\ artifacts = {}
    /\ result = "pending"
    /\ exc = "None"

\* return <value> from main()
Return(val, records) ==
    /\ pc' = "done"
    /\ result' = val
    /\ exc' = exc
    /\ log' = log \o records

\* an exception leaves main() uncaught
Raise(e) ==
    /\ pc' = "done"
    /\ result' = "raised"
    /\ exc' = e
    /\ log' = log

Goto(label) ==
    /\ pc' = label
    /\ UNCHANGED <<result, exc>>

(***************************************************************************)
(* ### Get Target Download Directory                                       *)
(***************************************************************************)
GetDownloadDest ==
    /\ pc = "dest"
    /\ IF download_dir = NoDir
       THEN \E ok \in BOOLEAN :
              /\ calls' = Append(calls, Call("get_download_dest", ok, Unbound, NoDir, 0))
              /\ IF ok
                 THEN /\ dest' = ConfigDir
                      /\ Goto("filter")
                      /\ log' = log
                 ELSE /\ dest' = dest
                      /\ Return("False", <<LogException("ConfigError"),
                                           LogError("[Abort] Environment Variable Error")>>)
       ELSE /\ calls' = calls
            /\ IF IsDir(fs, download_dir)
               THEN /\ dest' = download_dir
                    /\ Goto("filter")
                    /\ log' = log
               ELSE /\ dest' = download_dir
                    /\ Return("False", <<LogException("AssertionError"),
                                         LogError("[Abort] Environment Variable Error")>>)
    /\ UNCHANGED <<inputs, fs, paper_data, artifacts>>

(***************************************************************************)
(* ### Filter Invalid Target String                                        *)
(***************************************************************************)
\* Python truth value of the target
Truthy(t) ==
    CASE t.type = "str" -> Len(t.v) > 0
      [] t.type = "int" -> t.v # <<"0">>
      [] OTHER -> FALSE

\* variant: only the isinstance test, the emptiness test dropped
NotSpecified_TypeOnly(t) == t.type # "str"

\* not target or not isinstance(target, str)
NotSpecified(t) == ~Truthy(t) \/ t.type # "str"

HasUrlPrefix(s) == StartsWith(s, HTTP) \/ StartsWith(s, HTTPS) \/ StartsWith(s, WWW)

\* variant: the URL-or-id test left out, every non-empty str passes
FormatCheck_NoReject(t) ==
    IF t.type # "str" THEN "AttributeError"
    ELSE IF HasUrlPrefix(t.v) THEN "ok"
    ELSE IF Len(t.v) = 0 THEN "IndexError"
    ELSE "ok"

\* not target.startswith((...)) and not target[0].isdigit(), with the faults
\* the two sub-expressions raise on values they are not defined for
FormatCheck(t) ==
    IF t.type # "str" THEN "AttributeError"
    ELSE IF HasUrlPrefix(t.v) THEN "ok"
    ELSE IF Len(t.v) = 0 THEN "IndexError"
    ELSE IF IsDigit(t.v[1]) THEN "ok"
    ELSE "reject"

\* variant: a rejected target returns False with nothing logged
FilterTarget_Silent ==
    /\ pc = "filter"
    /\ IF NotSpecified(target)
       THEN Return("False", <<>>)
       ELSE CASE FormatCheck(target) = "ok" -> Goto("identify") /\ log' = log
              [] FormatCheck(target) = "reject" -> Return("False", <<>>)
              [] OTHER -> Raise(FormatCheck(target))
    /\ UNCHANGED <<inputs, fs, dest, paper_data, calls, artifacts>>

FilterTarget ==
    /\ pc = "filter"
    /\ IF NotSpecified(target)
       THEN Return("False", <<LogError("[Abort] Target is not specified correctly")>>)
       ELSE CASE FormatCheck(target) = "ok" -> Goto("identify") /\ log' = log
              [] FormatCheck(target) = "reject" ->
                     Return("False", <<LogError("[Abort] Target should be a URL or an ArXiv ID")>>)
              [] OTHER -> Raise(FormatCheck(target))
    /\ UNCHANGED <<inputs, fs, dest, paper_data, calls, artifacts>>

(***************************************************************************)
(* ### Identify Paper Source/Venues                                        *)
(***************************************************************************)
\* variant: the elif chain in the opposite order of venues
Venue_EcvaFirst(s) ==
    IF Contains(s, ECVA_HOST) THEN "ecva"
    ELSE IF Contains(s, OPENREVIEW_HOST) THEN "openreview"
    ELSE IF Contains(s, NIPS_PATH) THEN "nips"
    ELSE IF Contains(s, CVF_HOST) THEN "cvf"
    ELSE IF IsDigit(s[1]) \/ Contains(s, ARXIV_ORG) THEN "arxiv"
    ELSE IF EndsWith(s, DOT_PDF) THEN "pdf"
    ELSE "unknown"

\* variant: the CVF branch tested before the arXiv branch
Venue_CvfFirst(s) ==
    IF Contains(s, CVF_HOST) THEN "cvf"
    ELSE IF IsDigit(s[1]) \/ Contains(s, ARXIV_ORG) THEN "arxiv"
    ELSE IF Contains(s, NIPS_PATH) THEN "nips"
    ELSE IF Contains(s, OPENREVIEW_HOST) THEN "openreview"
    ELSE IF Contains(s, ECVA_HOST) THEN "ecva"
    ELSE IF EndsWith(s, DOT_PDF) THEN "pdf"
    ELSE "unknown"

\* the if / elif chain of lines 65-82, on the characters of the target
Venue(s) ==
    IF IsDigit(s[1]) \/ Contains(s, ARXIV_ORG) THEN "arxiv"
    ELSE IF Contains(s, CVF_HOST) THEN "cvf"
    ELSE IF Contains(s, NIPS_PATH) THEN "nips"
    ELSE IF Contains(s, OPENREVIEW_HOST) THEN "openreview"
    ELSE IF Contains(s, ECVA_HOST) THEN "ecva"
    ELSE IF EndsWith(s, DOT_PDF) THEN "pdf"
    ELSE "unknown"

Venues == {"arxiv", "cvf", "nips", "openreview", "ecva"}

ResolverOf(v) ==
    CASE v = "arxiv" -> "process_arxiv_target"
      [] v = "cvf" -> "process_cvf_target"
      [] v = "nips" -> "process_nips_target"
      [] v = "openreview" -> "process_openreview_target"
      [] v = "ecva" -> "process_ecva_target"

Resolvers == {ResolverOf(v) : v \in Venues}

\* the PaperData skeleton a resolver returns: ids and URLs filled from the
\* target, pdf_url possibly left for the scraper, the rest at its default
Resolved(v, url) ==
    [bound |-> TRUE, paper_id |-> "id", abs_url |-> "abs", pdf_url |-> url,
     src_website |-> v, download_name |-> "None", title |-> "None"]

IdentifySource ==
    /\ pc = "identify"
    /\ LET v == Venue(target.v) IN
       CASE v \in Venues ->
              \E ok \in BOOLEAN, url \in {"None", "pdf_url"} :
                 /\ calls' = Append(calls, Call(ResolverOf(v), ok, Unbound, NoDir, 0))
                 /\ IF ok
                    THEN /\ paper_data' = Resolved(v, url)
                         /\ Goto("scrape")
                         /\ log' = log
                    ELSE /\ paper_data' = paper_data
                         /\ Raise("ResolverError")
         [] v = "pdf" ->
              /\ Goto("scrape")
              /\ UNCHANGED <<paper_data, calls, log>>
         [] OTHER ->
              /\ Return("False", <<LogError("[Abort] Unknown target")>>)
              /\ UNCHANGED <<paper_data, calls>>
    /\ UNCHANGED <<inputs, fs, dest, artifacts>>

(***************************************************************************)
(* # start scraping from source website; # adjust logging level            *)
(***************************************************************************)
\* what scrape_metadata leaves in the record: the title, and a pdf_url when
\* the resolver left none and the page has one
Scraped(p, url) ==
    [p EXCEPT !.title = "title",
              !.download_name = "name",
              !.pdf_url = IF p.pdf_url = "None" THEN url ELSE p.pdf_url]

\* variant: the scraper call wrapped in try / except like the later stages
Scrape_Caught ==
    /\ pc = "scrape"
    /\ IF paper_data = Unbound
       THEN /\ Raise("UnboundLocalError")
            /\ UNCHANGED <<paper_data, calls>>
       ELSE \E ok \in BOOLEAN, url \in {"None", "", "pdf_url"} :
              /\ calls' = Append(calls, Call("scrape_metadata", ok, paper_data, NoDir, 0))
              /\ IF ok
                 THEN /\ paper_data' = Scraped(paper_data, url)
                      /\ Goto("download")
                      /\ log' = log \o (IF verbose THEN <<LogDebug("paper_data")>> ELSE <<>>)
                 ELSE /\ paper_data' = paper_data
                      /\ Return("False", <<LogException("ScrapeError")>>)
    /\ UNCHANGED <<inputs, fs, dest, artifacts>>

Scrape ==
    /\ pc = "scrape"
    /\ IF paper_data = Unbound
       THEN /\ Raise("UnboundLocalError")
            /\ UNCHANGED <<paper_data, calls>>
       ELSE \E ok \in BOOLEAN, url \in {"None", "", "pdf_url"} :
              /\ calls' = Append(calls, Call("scrape_metadata", ok, paper_data, NoDir, 0))
              /\ IF ok
                 THEN /\ paper_data' = Scraped(paper_data, url)
                      /\ Goto("download")
                      /\ log' = log \o (IF verbose THEN <<LogDebug("paper_data")>> ELSE <<>>)
                 ELSE /\ paper_data' = paper_data
                      /\ Raise("ScrapeError")
    /\ UNCHANGED <<inputs, fs, dest, artifacts>>

(***************************************************************************)
(* # download paper                                                        *)
(***************************************************************************)
\* variant: `is not None` in place of the truth value
PdfUrlSet_NotNone(p) == p.pdf_url # "None"

\* truth value of paper_data.pdf_url
PdfUrlSet(p) == p.pdf_url # "None" /\ p.pdf_url # ""

\* variant: a failed download is logged and the run goes on
Download_ContinueOnError ==
    /\ pc = "download"
    /\ IF PdfUrlSet(paper_data)
       THEN \E ok \in BOOLEAN :
              /\ calls' = Append(calls, Call("download_pdf", ok, paper_data, dest, n_threads))
              /\ Goto("paper_list")
              /\ IF ok
                 THEN /\ artifacts' = artifacts \cup {"pdf"}
                      /\ log' = log
                 ELSE /\ artifacts' = artifacts
                      /\ log' = log \o <<LogException("DownloadError"),
                                          LogError("[Abort] Error while downloading paper")>>
       ELSE /\ Goto("paper_list")
            /\ log' = log \o <<LogWarning("[Warn] No PDF URL found")>>
            /\ UNCHANGED <<calls, artifacts>>
    /\ UNCHANGED <<inputs, fs, dest, paper_data>>

\* variant: the downloader always gets the default connection count
Download_FixedConnections ==
    /\ pc = "download"
    /\ IF PdfUrlSet(paper_data)
       THEN \E ok \in BOOLEAN :
              /\ calls' = Append(calls, Call("download_pdf", ok, paper_data, dest, DefaultThreads))
              /\ IF ok
                 THEN /\ artifacts' = artifacts \cup {"pdf"}
                      /\ Goto("paper_list")
                      /\ log' = log
                 ELSE /\ artifacts' = artifacts
                      /\ Return("False", <<LogException("DownloadError"),
                                           LogError("[Abort] Error while downloading paper")>>)
       ELSE /\ Goto("paper_list")
            /\ log' = log \o <<LogWarning("[Warn] No PDF URL found")>>
            /\ UNCHANGED <<calls, artifacts>>
    /\ UNCHANGED <<inputs, fs, dest, paper_data>>

\* variant: main() itself fills download_name before the download
Download_DefaultsName ==
    /\ pc = "download"
    /\ paper_data' = [paper_data EXCEPT !.download_name = paper_data.paper_id]
    /\ IF PdfUrlSet(paper_data)
       THEN \E ok \in BOOLEAN :
              /\ calls' = Append(calls, Call("download_pdf", ok, paper_data', dest, n_threads))
              /\ IF ok
                 THEN /\ artifacts' = artifacts \cup {"pdf"}
                      /\ Goto("paper_list")
                      /\ log' = log
                 ELSE /\ artifacts' = artifacts
                      /\ Return("False", <<LogException("DownloadError"),
                                           LogError("[Abort] Error while downloading paper")>>)
       ELSE /\ Goto("paper_list")
            /\ log' = log \o <<LogWarning("[Warn] No PDF URL found")>>
            /\ UNCHANGED <<calls, artifacts>>
    /\ UNCHANGED <<inputs, fs, dest>>

\* variant: a failed download is tried a second time before giving up
Download_RetryOnce ==
    /\ pc = "download"
    /\ IF PdfUrlSet(paper_data)
       THEN \E ok \in BOOLEAN :
              /\ calls' = Append(calls, Call("download_pdf", ok, paper_data, dest, n_threads))
              /\ IF ok
                 THEN /\ artifacts' = artifacts \cup {"pdf"}
                      /\ Goto("paper_list")
                      /\ log' = log
                 ELSE /\ artifacts' = artifacts
                      /\ IF \E i \in DOMAIN calls : calls[i].name = "download_pdf"
                         THEN Return("False", <<LogException("DownloadError"),
                                                LogError("[Abort] Error while downloading paper")>>)
                         ELSE Goto("download") /\ log' = log
       ELSE /\ Goto("paper_list")
            /\ log' = log \o <<LogWarning("[Warn] No PDF URL found")>>
            /\ UNCHANGED <<calls, artifacts>>
    /\ UNCHANGED <<inputs, fs, dest, paper_data>>

Download ==
    /\ pc = "download"
    /\ IF PdfUrlSet(paper_data)
       THEN \E ok \in BOOLEAN :
              /\ calls' = Append(calls, Call("download_pdf", ok, paper_data, dest, n_threads))
              /\ IF ok
                 THEN /\ artifacts' = artifacts \cup {"pdf"}
                      /\ Goto("paper_list")
                      /\ log' = log
                 ELSE /\ artifacts' = artifacts
                      /\ Return("False", <<LogException("DownloadError"),
                                           LogError("[Abort] Error while downloading paper")>>)
       ELSE /\ Goto("paper_list")
            /\ log' = log \o <<LogWarning("[Warn] No PDF URL found")>>
            /\ UNCHANGED <<calls, artifacts>>
    /\ UNCHANGED <<inputs, fs, dest, paper_data>>

(***************************************************************************)
(* # update paper list                                                     *)
(***************************************************************************)
\* variant: a failed append is only warned about and the run goes on
UpdatePaperList_WarnOnly ==
    /\ pc = "paper_list"
    /\ \E ok \in BOOLEAN :
         /\ calls' = Append(calls, Call("add_to_paper_list", ok, paper_data, dest, 0))
         /\ Goto("note")
         /\ IF ok
            THEN /\ artifacts' = artifacts \cup {"index"}
                 /\ log' = log
            ELSE /\ artifacts' = artifacts
                 /\ log' = log \o <<LogException("IndexError"),
                                     LogWarning("[Warn] Error while updating paper list")>>
    /\ UNCHANGED <<inputs, fs, dest, paper_data>>

\* variant: a failed append removes the PDF downloaded by this run
UpdatePaperList_Rollback ==
    /\ pc = "paper_list"
    /\ \E ok \in BOOLEAN :
         /\ calls' = Append(calls, Call("add_to_paper_list", ok, paper_data, dest, 0))
         /\ IF ok
            THEN /\ artifacts' = artifacts \cup {"index"}
                 /\ Goto("note")
                 /\ log' = log
            ELSE /\ artifacts' = artifacts \ {"pdf"}
                 /\ Return("False", <<LogException("IndexError"),
                                      LogWarning("[Warn] Error while updating paper list")>>)
    /\ UNCHANGED <<inputs, fs, dest, paper_data>>

UpdatePaperList ==
    /\ pc = "paper_list"
    /\ \E ok \in BOOLEAN :
         /\ calls' = Append(calls, Call("add_to_paper_list", ok, paper_data, dest, 0))
         /\ IF ok
            THEN /\ artifacts' = artifacts \cup {"index"}
                 /\ Goto("note")
                 /\ log' = log
            ELSE /\ artifacts' = artifacts
                 /\ Return("False", <<LogException("IndexError"),
                                      LogWarning("[Warn] Error while updating paper list")>>)
    /\ UNCHANGED <<inputs, fs, dest, paper_data>>

(***************************************************************************)
(* # Create paper notes                                                    *)
(***************************************************************************)
\* variant: the pdf_only switch is not consulted
CreateNote_IgnoresFlag ==
    /\ pc = "note"
    /\ \E ok \in BOOLEAN :
         /\ calls' = Append(calls, Call("create_paper_note", ok, paper_data, dest, 0))
         /\ IF ok
            THEN /\ artifacts' = artifacts \cup {"note"}
                 /\ Return("True", <<>>)
            ELSE /\ artifacts' = artifacts
                 /\ Return("False", <<LogException("NoteError"),
                                      LogWarning("[Warn] Error while creating note")>>)
    /\ UNCHANGED <<inputs, fs, dest, paper_data>>

\* variant: a failed note is only warned about, the run still succeeds
CreateNote_WarnOnly ==
    /\ pc = "note"
    /\ IF ~pdf_only
       THEN \E ok \in BOOLEAN :
              /\ calls' = Append(calls, Call("create_paper_note", ok, paper_data, dest, 0))
              /\ IF ok
                 THEN /\ artifacts' = artifacts \cup {"note"}
                      /\ Return("True", <<>>)
                 ELSE /\ artifacts' = artifacts
                      /\ Return("True", <<LogException("NoteError"),
                                          LogWarning("[Warn] Error while creating note")>>)
       ELSE /\ Return("True", <<>>)
            /\ UNCHANGED <<calls, artifacts>>
    /\ UNCHANGED <<inputs, fs, dest, paper_data>>

CreateNote ==
    /\ pc = "note"
    /\ IF ~pdf_only
       THEN \E ok \in BOOLEAN :
              /\ calls' = Append(calls, Call("create_paper_note", ok, paper_data, dest, 0))
              /\ IF ok
                 THEN /\ artifacts' = artifacts \cup {"note"}
                      /\ Return("True", <<>>)
                 ELSE /\ artifacts' = artifacts
                      /\ Return("False", <<LogException("NoteError"),
                                           LogWarning("[Warn] Error while creating note")>>)
       ELSE /\ Return("True", <<>>)
            /\ UNCHANGED <<calls, artifacts>>
    /\ UNCHANGED <<inputs, fs, dest, paper_data>>

Next ==
    \/ GetDownloadDest
    \/ FilterTarget
    \/ IdentifySource
    \/ Scrape
    \/ Download
    \/ UpdatePaperList
    \/ CreateNote

Spec == Init /\ [][Next]_vars

TypeOK ==
    /\ pc \in {"dest", "filter", "identify", "scrape", "download", "paper_list", "note", "done"}
    /\ result \in {"pending", "True", "False", "raised"}
    /\ (pc = "done") = (result # "pending")
    /\ (result = "raised") = (exc # "None")

(***************************************************************************)
(* Observations on the call record.                                        *)
(***************************************************************************)
Invoked(n) == \E i \in DOMAIN calls : calls[i].name = n

Failed(n) == \E i \in DOMAIN calls : calls[i].name = n /\ ~calls[i].ok

Succeeded(n) == \E i \in DOMAIN calls : calls[i].name = n /\ calls[i].ok

Downstream == {"scrape_metadata", "download_pdf", "add_to_paper_list", "create_paper_note"}

\* the destination stage completed with a usable directory
DestResolved == dest # NoDir /\ fs[dest] = "dir"

\* the target is a str whose first character is a digit
DigitFirst(t) == t.type = "str" /\ Len(t.v) > 0 /\ t.v[1] \in Digits

\* the target is a str that matches one of the five venue rules
MatchesVenueRule(t) ==
    \/ DigitFirst(t)
    \/ \E h \in {ARXIV_ORG, CVF_HOST, NIPS_PATH, OPENREVIEW_HOST, ECVA_HOST} :
          Contains(t.v, h)

\* C1: main() always terminates by returning a boolean; no exception
\* escapes to the caller, whatever the target, options and collaborator faults.
C1_AlwaysReturnsBoolean == pc = "done" => result \in {"True", "False"}

\* C2: for a target ending in ".pdf" that matches none of the five venue
\* rules, main() returns False without a fault and no scraper, downloader,
\* index updater or note writer is invoked.
C2_RawPdfReturnsFalse ==
    (pc = "done" /\ target.type = "str" /\ EndsWith(target.v, DOT_PDF)
       /\ ~MatchesVenueRule(target))
    => (result = "False" /\ \A n \in Downstream : ~Invoked(n))

\* C3: the note writer is invoked only after a successful index append, and
\* a failed index append makes main() return False with no note attempted.
C3_NoteOnlyAfterIndex ==
    /\ \A i \in DOMAIN calls :
          calls[i].name = "create_paper_note"
          => \E j \in 1..(i - 1) : calls[j].name = "add_to_paper_list" /\ calls[j].ok
    /\ Failed("add_to_paper_list")
          => (result = "False" /\ ~Invoked("create_paper_note"))

C3_Witness == pc = "done" /\ Failed("add_to_paper_list") /\ "pdf" \in artifacts

\* C4: with pdf_url unset (None or empty) after resolve and scrape, the
\* downloader is never invoked, the run is not aborted by the download stage,
\* the index append is attempted (and the note unless pdf_only), and main()
\* returns True exactly when those later stages succeed.
C4_UnsetPdfUrlSkipsDownload ==
    (pc \in {"paper_list", "note", "done"} /\ Succeeded("scrape_metadata")
       /\ paper_data.pdf_url \in {"None", ""})
    => /\ ~Invoked("download_pdf")
       /\ result # "raised"
       /\ pc = "done" =>
            /\ Invoked("add_to_paper_list")
            /\ (Succeeded("add_to_paper_list") /\ ~pdf_only) => Invoked("create_paper_note")
            /\ (result = "True") =
                 (Succeeded("add_to_paper_list")
                    /\ (pdf_only \/ Succeeded("create_paper_note")))

C4_Witness ==
    /\ pc = "done" /\ result = "True"
    /\ Succeeded("scrape_metadata") /\ paper_data.pdf_url = ""
    /\ Succeeded("create_paper_note")

\* C5: a failed PDF download makes main() return False, and neither the
\* index updater nor the note writer is invoked: no index entry, no note.
C5_DownloadFailureAborts ==
    Failed("download_pdf")
    => /\ result = "False"
       /\ ~Invoked("add_to_paper_list")
       /\ ~Invoked("create_paper_note")
       /\ artifacts \cap {"index", "note"} = {}

C5_Witness == pc = "done" /\ Failed("download_pdf")

\* C6 (as claimed): for an empty target main() returns False and no
\* collaborator at all, the configuration source included, is invoked.
C6_EmptyTargetNoCollaborator ==
    (pc = "done" /\ target = Str(<<>>)) => (result = "False" /\ calls = <<>>)

\* C6 (amended): for an empty target main() returns False and no resolver,
\* scraper, downloader, index updater or note writer is invoked; the
\* configuration source is invoked once exactly when no download_dir is given.
C6_EmptyTargetRejected ==
    (pc = "done" /\ target = Str(<<>>))
    => /\ result = "False"
       /\ \A i \in DOMAIN calls : calls[i].name = "get_download_dest"
       /\ Len(calls) = IF download_dir = NoDir THEN 1 ELSE 0

C6_Witness ==
    /\ pc = "done" /\ target = Str(<<>>)
    /\ download_dir = NoDir /\ Succeeded("get_download_dest")

\* C7: an explicit download_dir that is not an existing directory makes
\* main() return False before any resolver, scraper, downloader, index
\* updater or note writer is invoked, for every target; the directory is
\* never created.
C7_MissingExplicitDirAborts ==
    (download_dir # NoDir /\ InitFs[download_dir] # "dir")
    => /\ fs = InitFs
       /\ calls = <<>>
       /\ pc # "dest" => (pc = "done" /\ result = "False")

C7_Witness ==
    /\ pc = "done" /\ download_dir = "/missing"
    /\ target.type = "str" /\ FormatCheck(target) = "ok" /\ MatchesVenueRule(target)

\* C8: a failing source resolver is logged and makes main() return False,
\* with no scraper, downloader, index updater or note writer invoked.
C8_ResolverFailureReturnsFalse ==
    (\E r \in Resolvers : Failed(r))
    => /\ result = "False"
       /\ log # <<>>
       /\ \A n \in Downstream : ~Invoked(n)

\* C9: a fault raised by scrape_metadata is not caught: it reaches the
\* caller of main(), and downloader, index updater and note writer are
\* never invoked.
C9_ScrapeFailurePropagates ==
    Failed("scrape_metadata")
    => /\ result = "raised"
       /\ exc = "ScrapeError"
       /\ \A n \in Downstream \ {"scrape_metadata"} : ~Invoked(n)

C9_Witness == pc = "done" /\ Failed("scrape_metadata")

\* C10 (as claimed): every string containing "arxiv.org", whatever its
\* first characters, is handed to process_arxiv_target and no other resolver.
C10_ArxivSubstringAlwaysArxiv ==
    (pc = "done" /\ DestResolved /\ target.type = "str"
       /\ Contains(target.v, ARXIV_ORG))
    => /\ Invoked("process_arxiv_target")
       /\ \A r \in Resolvers \ {"process_arxiv_target"} : ~Invoked(r)

\* C10 (amended): once the destination has resolved, a string containing
\* "arxiv.org" that starts with "http://", "https://", "www." or a digit is
\* handed to process_arxiv_target and to no other resolver; one with none
\* of these beginnings is rejected with False and reaches no resolver.
C10_ArxivSubstringAfterFormatCheck ==
    (pc \notin {"dest", "filter", "identify"} /\ DestResolved
       /\ target.type = "str" /\ Contains(target.v, ARXIV_ORG))
    => IF HasUrlPrefix(target.v) \/ DigitFirst(target)
       THEN /\ Invoked("process_arxiv_target")
            /\ \A r \in Resolvers \ {"process_arxiv_target"} : ~Invoked(r)
       ELSE /\ result = "False"
            /\ \A r \in Resolvers : ~Invoked(r)

C10_Witness ==
    /\ pc = "done" /\ ~DigitFirst(target)
    /\ Contains(target.v, ARXIV_ORG) /\ Contains(target.v, CVF_HOST)
    /\ Succeeded("process_arxiv_target")

\* number of recorded invocations of collaborator n
CallCount(n) == Cardinality({i \in DOMAIN calls : calls[i].name = n})

\* C11: a non-empty string that starts with none of "http://", "https://",
\* "www." and whose first character is no digit is rejected: main() returns
\* False and no resolver, scraper, downloader, index updater or note writer
\* is invoked, even when the string contains a venue substring.
C11_UnrecognizedFormatRejected ==
    (target.type = "str" /\ Len(target.v) > 0
       /\ ~StartsWith(target.v, HTTP) /\ ~StartsWith(target.v, HTTPS)
       /\ ~StartsWith(target.v, WWW) /\ target.v[1] \notin Digits)
    => /\ \A n \in Resolvers \cup Downstream : ~Invoked(n)
       /\ pc \in {"dest", "filter", "done"}
       /\ pc = "done" => result = "False"

C11_Witness ==
    /\ pc = "done" /\ DestResolved /\ result = "False"
    /\ target.type = "str" /\ StartsWith(target.v, ECVA_HOST)

\* C12: with pdf_only the note writer is never invoked and the result is
\* True as soon as the index append succeeded; without pdf_only, once every
\* earlier stage succeeded the note writer is invoked exactly once and the
\* result is True if it succeeds and False if it fails.
C12_NoteUnlessPdfOnly ==
    /\ pdf_only => ~Invoked("create_paper_note")
    /\ (pc = "done" /\ Succeeded("add_to_paper_list")) =>
         IF pdf_only
         THEN result = "True"
         ELSE /\ CallCount("create_paper_note") = 1
              /\ (result = "True") = Succeeded("create_paper_note")
              /\ (result = "False") = Failed("create_paper_note")

C12_Witness ==
    /\ pc = "done" /\ pdf_only /\ result = "True"
    /\ Succeeded("add_to_paper_list") /\ "pdf" \in artifacts

\* what main() reports of a run: the value it returns and the messages it logs
ReportedOutcome == [value |-> result, messages |-> [i \in DOMAIN log |-> log[i].text]]

\* the report of a run whose explicit download_dir is not a directory
\* (lines 43-48: the assert fails, the handler logs and returns False)
MissingDirOutcome ==
    [value |-> "False",
     messages |-> <<"exception", "[Abort] Environment Variable Error">>]

\* C13: a failure to resolve the default destination from the configuration
\* is reported as an error kind distinct from "explicit directory does not
\* exist": the two failures never produce the same reported outcome.
C13_DistinctErrorKinds ==
    Failed("get_download_dest") => ReportedOutcome # MissingDirOutcome

\* C14: nothing is rolled back: a downloaded PDF and an appended index
\* entry stay in place when a later stage fails, main() then returns False,
\* and no collaborator is called after a failed one (no compensating action).
C14_NoRollback ==
    /\ Succeeded("download_pdf") => "pdf" \in artifacts
    /\ Succeeded("add_to_paper_list") => "index" \in artifacts
    /\ (Failed("add_to_paper_list") \/ Failed("create_paper_note")) => result = "False"
    /\ \A i \in DOMAIN calls : ~calls[i].ok => i = Len(calls)

C14_Witness ==
    /\ pc = "done" /\ result = "False"
    /\ Succeeded("download_pdf") /\ Failed("add_to_paper_list")
    /\ artifacts = {"pdf"}

\* C15: the n_threads hint reaches download_pdf as parallel_connections
\* with the value main() received (5 when the caller gave none).
C15_ParallelismForwarded ==
    \A i \in DOMAIN calls :
       calls[i].name = "download_pdf" => calls[i].parallel = n_threads

C15_Witness ==
    /\ pc = "done" /\ n_threads # DefaultThreads
    /\ \E i \in DOMAIN calls : calls[i].name = "download_pdf" /\ calls[i].parallel = 1

StageCalls == {"download_pdf", "add_to_paper_list", "create_paper_note"}

\* C16: the record given to the download, index and note stages is the
\* resolver's record as the scraper left it: main() changes no field after
\* scrape_metadata returns, so paper_id, abs_url and src_website arrive as
\* the resolver set them.
C16_RecordCarriedUnchanged ==
    \A i \in DOMAIN calls :
       calls[i].name \in StageCalls =>
          /\ calls[i].paper = paper_data
          /\ \E s \in 1..(i - 1) :
                /\ calls[s].name = "scrape_metadata" /\ calls[s].ok
                /\ \E r \in 1..(s - 1) :
                      /\ calls[r].name \in Resolvers /\ calls[r].ok
                      /\ calls[s].paper.src_website \in Venues
                      /\ calls[r].name = ResolverOf(calls[s].paper.src_website)
                /\ \E u \in {"None", "", "pdf_url"} :
                      calls[i].paper = Scraped(calls[s].paper, u)
                /\ calls[i].paper.paper_id = calls[s].paper.paper_id
                /\ calls[i].paper.abs_url = calls[s].paper.abs_url
                /\ calls[i].paper.src_website = calls[s].paper.src_website

C16_Witness ==
    /\ pc = "done" /\ result = "True"
    /\ \A n \in StageCalls : Succeeded(n)
    /\ paper_data.src_website = "openreview"

\* the venue rules in the order the claim lists them, each with its resolver
RuleMatches(k, t) ==
    CASE k = 1 -> DigitFirst(t) \/ Contains(t.v, ARXIV_ORG)
      [] k = 2 -> Contains(t.v, CVF_HOST)
      [] k = 3 -> Contains(t.v, NIPS_PATH)
      [] k = 4 -> Contains(t.v, OPENREVIEW_HOST)
      [] k = 5 -> Contains(t.v, ECVA_HOST)

RuleResolver ==
    <<"process_arxiv_target", "process_cvf_target", "process_nips_target",
      "process_openreview_target", "process_ecva_target">>

MatchingRules(t) == {k \in DOMAIN RuleResolver : RuleMatches(k, t)}

\* the target is a str that passes the format check of lines 55-58
PassesFormat(t) ==
    t.type = "str" /\ Len(t.v) > 0 /\ (HasUrlPrefix(t.v) \/ t.v[1] \in Digits)

\* C17: venue detection is first-match-wins in the order ArXiv, CVF,
\* NeurIPS, OpenReview, ECVA: for a target that passes the format check and
\* matches one or several rules, exactly one resolver is invoked, the one of
\* the earliest matching rule.
C17_FirstMatchWins ==
    LET matching == MatchingRules(target)
        first == CHOOSE k \in matching : \A m \in matching : k <= m
    IN (pc \notin {"dest", "filter", "identify"} /\ DestResolved
          /\ PassesFormat(target) /\ matching # {})
       => /\ CallCount(RuleResolver[first]) = 1
          /\ \A r \in Resolvers \ {RuleResolver[first]} : ~Invoked(r)

C17_Witness ==
    /\ pc = "done" /\ Cardinality(MatchingRules(target)) >= 2
    /\ 1 \notin MatchingRules(target)
    /\ Contains(target.v, ECVA_HOST)
    /\ Succeeded("process_nips_target")

\* position of a collaborator in the sequence of stages
StageRank(n) ==
    CASE n = "get_download_dest" -> 1
      [] n \in Resolvers -> 2
      [] n = "scrape_metadata" -> 3
      [] n = "download_pdf" -> 4
      [] n = "add_to_paper_list" -> 5
      [] n = "create_paper_note" -> 6

\* messages of the target validation stage
TargetMessages ==
    {"[Abort] Target is not specified correctly",
     "[Abort] Target should be a URL or an ArXiv ID",
     "[Abort] Unknown target"}

\* C18: the stages run in the order destination, target validation,
\* resolver, scraper, downloader, index updater, note writer; no collaborator
\* is invoked twice, and a stage runs only after every earlier applicable
\* stage completed without failure.
C18_FixedStageOrder ==
    /\ \A i, j \in DOMAIN calls :
          i < j => StageRank(calls[i].name) < StageRank(calls[j].name)
    /\ \A i \in DOMAIN calls : i < Len(calls) => calls[i].ok
    /\ (\E i \in DOMAIN log : log[i].text \in TargetMessages) => DestResolved
    /\ (\E r \in Resolvers : Invoked(r)) => (DestResolved /\ PassesFormat(target))
    /\ Invoked("scrape_metadata") => \E r \in Resolvers : Succeeded(r)
    /\ Invoked("download_pdf") => Succeeded("scrape_metadata")
    /\ Invoked("add_to_paper_list") =>
          /\ Succeeded("scrape_metadata")
          /\ Invoked("download_pdf") => Succeeded("download_pdf")
    /\ Invoked("create_paper_note") => Succeeded("add_to_paper_list")

C18_Witness ==
    /\ pc = "done" /\ Len(calls) = 6
    /\ \A i \in 1..5 : calls[i].ok

\* the log holds the exception e, followed by a later record
ExceptionLogged(e) ==
    \E i \in DOMAIN log :
       log[i].text = "exception" /\ log[i].cause = e /\ i < Len(log)

\* C19: a run that returns False has logged an error or a warning before
\* returning, and when a collaborator exception (destination, download,
\* index append, note) caused the abort, that exception was logged first.
C19_FalseIsAlwaysLogged ==
    result = "False" =>
       /\ log # <<>>
       /\ log[Len(log)].level \in {"error", "warning"}
       /\ Failed("get_download_dest") => ExceptionLogged("ConfigError")
       /\ (download_dir # NoDir /\ fs[download_dir] # "dir")
             => ExceptionLogged("AssertionError")
       /\ Failed("download_pdf") => ExceptionLogged("DownloadError")
       /\ Failed("add_to_paper_list") => ExceptionLogged("IndexError")
       /\ Failed("create_paper_note") => ExceptionLogged("NoteError")

C19_Witness ==
    /\ pc = "done" /\ result = "False"
    /\ Failed("create_paper_note") /\ ExceptionLogged("NoteError")
    /\ Len(log) = 2

\* C20: main() returns True exactly when the destination resolved, the
\* target was classified into one of the five venues, resolver and scraper
\* completed, the download succeeded or was skipped for want of a pdf_url,
\* the index append succeeded and the note succeeded or was skipped by
\* pdf_only; which collaborators run is fixed by the same facts, and verbose
\* only adds the debug record.
C20_TrueIffAllStagesPassed ==
    LET classified == PassesFormat(target) /\ MatchingRules(target) # {}
    IN
    pc = "done" =>
       /\ (result = "True") =
            (/\ DestResolved
             /\ classified
             /\ \E r \in Resolvers : Succeeded(r)
             /\ Succeeded("scrape_metadata")
             /\ \/ Succeeded("download_pdf")
                \/ paper_data.pdf_url \in {"None", ""} /\ ~Invoked("download_pdf")
             /\ Succeeded("add_to_paper_list")
             /\ \/ Succeeded("create_paper_note")
                \/ pdf_only /\ ~Invoked("create_paper_note"))
       /\ Invoked("get_download_dest") = (download_dir = NoDir)
       /\ (\E r \in Resolvers : Invoked(r)) =
            (DestResolved /\ classified)
       /\ Invoked("scrape_metadata") = (\E r \in Resolvers : Succeeded(r))
       /\ Invoked("download_pdf") =
            (Succeeded("scrape_metadata") /\ paper_data.pdf_url \notin {"None", ""})
       /\ Invoked("add_to_paper_list") =
            (Succeeded("scrape_metadata")
               /\ (paper_data.pdf_url \in {"None", ""} \/ Succeeded("download_pdf")))
       /\ Invoked("create_paper_note") = (Succeeded("add_to_paper_list") /\ ~pdf_only)
       /\ (\E i \in DOMAIN log : log[i].level = "debug") =
            (verbose /\ Succeeded("scrape_metadata"))

C20_Witness ==
    /\ pc = "done" /\ result = "True" /\ verbose
    /\ \E i \in DOMAIN log : log[i].level = "debug"
    /\ Succeeded("download_pdf") /\ Succeeded("create_paper_note")

====
